---- MODULE Spec2Model ----
(***************************************************************************)
(* Model of cpp-signals (src/include/signals.hpp): Signal, Slot and        *)
(* Connection, their containers, back-references and mutexes, and the      *)
(* threads that call into them.                                            *)
(*                                                                         *)
(* Granularity.  Every access to a table, a set or a back-reference in     *)
(* signals.hpp happens under the mutex that guards it, so a step of the    *)
(* model is: acquire one mutex, then run the code up to the next           *)
(* acquisition (or to the return, releasing what lock_guard releases).     *)
(* A call begins with its first acquisition.                               *)
(*                                                                         *)
(* Connection handles are numbered in allocation order; containers are     *)
(* iterated in key order, as std::map and std::set do.                     *)
(*                                                                         *)
(* Callers obey the C++ lifetime rules for the objects they name directly: *)
(* no member function is called on a destroyed Signal, no destroyed Slot   *)
(* is passed to connect, and a destructor does not start while another     *)
(* thread is inside a call made directly on that object.  Accesses through *)
(* the library's own back-references (m_pSignal, m_pSlot, stored           *)
(* callables) are not restricted.                                          *)
(*                                                                         *)
(* Listeners.  In Spec and SpecSingle a listener returns and calls nothing. *)
(* SpecListener adds listeners that throw and listeners that call back     *)
(* into the Signal that is emitting; locking a std::mutex the thread owns  *)
(* is undefined, and is resolved to the two outcomes the C++ standard      *)
(* names for it: the thread blocks, or lock() throws std::system_error.    *)
(***************************************************************************)
EXTENDS Integers, Sequences, FiniteSets, TLC

(* Bounds: Connection objects created in a run of one caller thread and  *)
(* in a run of two concurrent caller threads                              *)
MaxConns == 4
MaxConcurrentConns == 2

Threads == {"t1", "t2"}
Signals == {"S1", "S2"}
Slots == {"A", "B"}
EmitArgs == {10, 40}
Conns == 1..MaxConns

nullptr == "nullptr"
NoThread == "none"
FreeFunction == "function"

VARIABLES
    sigAlive,            \* Signal object constructed and not yet destroyed
    slotAlive,           \* Slot object constructed and not yet destroyed
    sig_m_connections,   \* Signal::m_connections: Connection -> callable
    sig_m_mutex,         \* Signal::m_mutex (std::mutex): owner thread
    slot_m_connections,  \* Slot::m_connections
    slot_m_mutex,        \* Slot::m_mutex (std::recursive_mutex)
    m_pSignal,           \* Connection::m_pSignal
    m_pSlot,             \* Connection::m_pSlot
    conn_m_mutex,        \* Connection::m_mutex (std::recursive_mutex)
    allocated,           \* number of Connection objects created so far
    th,                  \* per thread: position and locals of the call it is in
    erased               \* history: per Connection, removals from a table that held it

vars == <<sigAlive, slotAlive, sig_m_connections, sig_m_mutex, slot_m_connections,
          slot_m_mutex, m_pSignal, m_pSlot, conn_m_mutex, allocated, th, erased>>

----------------------------------------------------------------------------
(* Containers and mutexes *)

EmptyMap == [k \in {} |-> FreeFunction]

MapInsert_lost(tbl, c, f) == tbl

MapInsert(tbl, c, f) == [k \in DOMAIN tbl \cup {c} |-> IF k \in DOMAIN tbl THEN tbl[k] ELSE f]

MapErase_clear(tbl, c) == EmptyMap

MapErase_kept(tbl, c) == tbl

MapErase(tbl, c) == [k \in DOMAIN tbl \ {c} |-> tbl[k]]

EraseCount_always(tbl, c) == 1

EraseCount(tbl, c) == IF c \in DOMAIN tbl THEN 1 ELSE 0

MapClear_keep(tbl) == tbl

MapClear(tbl) == EmptyMap

MapSize(tbl) == Cardinality(DOMAIN tbl)

First(set) == CHOOSE x \in set : \A y \in set : x <= y

Keys_skipFirst(tbl) == IF DOMAIN tbl = {} THEN {} ELSE DOMAIN tbl \ {First(DOMAIN tbl)}

Keys(tbl) == DOMAIN tbl

SetInsert_lost(set, c) == set

SetInsert(set, c) == set \cup {c}

SetErase(set, c) == set \ {c}

MutexFree_always(m) == TRUE

MutexFree(m) == m = NoThread

Unlocked == [owner |-> NoThread, depth |-> 0]

CanLock(m, t) == m.owner = NoThread \/ m.owner = t

RLock(m, t) == [owner |-> t, depth |-> m.depth + 1]

RUnlock_kept(m) == m

RUnlock(m) == IF m.depth <= 1 THEN Unlocked ELSE [m EXCEPT !.depth = @ - 1]

----------------------------------------------------------------------------
(* Threads *)

Idle ==
    [pc |-> "idle", op |-> "none", sig |-> nullptr, conn |-> 0, slot |-> nullptr,
     pSlot |-> nullptr, iter |-> {}, from |-> "none", args |-> 0, calls |-> <<>>,
     snap |-> EmptyMap, set0 |-> {}, removed |-> {}, dead0 |-> {}, ret |-> 0,
     raised |-> FALSE, nested |-> "none"]

InCall(t) == th[t].pc \notin {"idle", "done"}

SignalOps == {"connect", "connectSlot", "disconnect", "disconnectAll", "~Signal",
              "emit", "operator()", "count"}

UsesSignal(t, s) == InCall(t) /\ th[t].op \in SignalOps /\ th[t].sig = s

UsesSlot(t, sl) == InCall(t) /\ th[t].op \in {"connectSlot", "~Slot"} /\ th[t].slot = sl

Destroying(t, s) == InCall(t) /\ th[t].op = "~Signal" /\ th[t].sig = s

CanCall(t, s) ==
    /\ th[t].pc = "idle"
    /\ sigAlive[s]
    /\ \A u \in Threads : ~Destroying(u, s)

Pending == Cardinality({t \in Threads : th[t].pc = "connect_slot"})

Init ==
    /\ sigAlive = [s \in Signals |-> TRUE]
    /\ slotAlive = [sl \in Slots |-> TRUE]
    /\ sig_m_connections = [s \in Signals |-> EmptyMap]
    /\ sig_m_mutex = [s \in Signals |-> NoThread]
    /\ slot_m_connections = [sl \in Slots |-> {}]
    /\ slot_m_mutex = [sl \in Slots |-> Unlocked]
    /\ m_pSignal = [c \in Conns |-> nullptr]
    /\ m_pSlot = [c \in Conns |-> nullptr]
    /\ conn_m_mutex = [c \in Conns |-> Unlocked]
    /\ allocated = 0
    /\ th = [t \in Threads |-> Idle]
    /\ erased = [c \in Conns |-> 0]

----------------------------------------------------------------------------
(* new Connection(this, slot): an object no earlier connect created *)

NewConnection_reused(n) == IF n = 0 THEN 1 ELSE n

NewConnection(n) == n + 1

(* Signal::connect(std::function) *)

Connect(t, s, limit) ==
    /\ CanCall(t, s)
    /\ allocated + Pending < limit
    /\ MutexFree(sig_m_mutex[s])
    /\ LET c == NewConnection(allocated) IN
        /\ allocated' = c
        /\ m_pSignal' = [m_pSignal EXCEPT ![c] = s]
        /\ m_pSlot' = [m_pSlot EXCEPT ![c] = nullptr]
        /\ sig_m_connections' =
               [sig_m_connections EXCEPT ![s] = MapInsert(@, c, FreeFunction)]
        /\ th' = [th EXCEPT ![t] =
                      [Idle EXCEPT !.pc = "done", !.op = "connect", !.sig = s,
                                   !.conn = c, !.ret = c]]
    /\ UNCHANGED <<sigAlive, slotAlive, sig_m_mutex, slot_m_connections, slot_m_mutex,
                   conn_m_mutex, erased>>

(* Signal::connect(T * slot, method): Signal's mutex, then the Slot's *)

ConnectSlotLockSignal(t, s, sl, limit) ==
    /\ CanCall(t, s)
    /\ slotAlive[sl]
    /\ \A u \in Threads : ~(UsesSlot(u, sl) /\ th[u].op = "~Slot")
    /\ allocated + Pending < limit
    /\ MutexFree(sig_m_mutex[s])
    /\ sig_m_mutex' = [sig_m_mutex EXCEPT ![s] = t]
    /\ th' = [th EXCEPT ![t] =
                  [Idle EXCEPT !.pc = "connect_slot", !.op = "connectSlot", !.sig = s,
                               !.slot = sl]]
    /\ UNCHANGED <<sigAlive, slotAlive, sig_m_connections, slot_m_connections,
                   slot_m_mutex, m_pSignal, m_pSlot, conn_m_mutex, allocated, erased>>

ConnectSlotInsert(t) ==
    /\ th[t].pc = "connect_slot"
    /\ CanLock(slot_m_mutex[th[t].slot], t)
    /\ LET c == NewConnection(allocated)
           s == th[t].sig
           sl == th[t].slot
       IN
        /\ allocated' = c
        /\ m_pSignal' = [m_pSignal EXCEPT ![c] = s]
        /\ m_pSlot' = [m_pSlot EXCEPT ![c] = sl]
        /\ sig_m_connections' = [sig_m_connections EXCEPT ![s] = MapInsert(@, c, sl)]
        /\ slot_m_connections' = [slot_m_connections EXCEPT ![sl] = SetInsert(@, c)]
        /\ sig_m_mutex' = [sig_m_mutex EXCEPT ![s] = NoThread]
        /\ th' = [th EXCEPT ![t].pc = "done", ![t].conn = c, ![t].ret = c]
    /\ UNCHANGED <<sigAlive, slotAlive, slot_m_mutex, conn_m_mutex, erased>>

(* Signal::count *)

count(s) == MapSize(sig_m_connections[s])

CountCall(t, s) ==
    /\ CanCall(t, s)
    /\ MutexFree(sig_m_mutex[s])
    /\ th' = [th EXCEPT ![t] =
                  [Idle EXCEPT !.pc = "done", !.op = "count", !.sig = s,
                               !.ret = count(s)]]
    /\ UNCHANGED <<sigAlive, slotAlive, sig_m_connections, sig_m_mutex,
                   slot_m_connections, slot_m_mutex, m_pSignal, m_pSlot, conn_m_mutex,
                   allocated, erased>>

(* The caller takes the result; the thread is free for its next call *)

Return(t) ==
    /\ th[t].pc = "done"
    /\ th' = [th EXCEPT ![t] = Idle]
    /\ UNCHANGED <<sigAlive, slotAlive, sig_m_connections, sig_m_mutex,
                   slot_m_connections, slot_m_mutex, m_pSignal, m_pSlot, conn_m_mutex,
                   allocated, erased>>

----------------------------------------------------------------------------
(* Signal::disconnect(connection): entered from the caller, from           *)
(* Connection::disconnect (th.from = "conn") or from ~Slot ("slot")        *)

AfterDisconnect(from) ==
    CASE from = "conn" -> "conn_unlock"
      [] from = "slot" -> "slot_next"
      [] OTHER -> "done"

SignalDisconnectBegin(t, s, c) ==
    /\ CanCall(t, s)
    /\ c \in 1..allocated
    /\ th' = [th EXCEPT ![t] =
                  [Idle EXCEPT !.pc = "disconnect", !.op = "disconnect", !.sig = s,
                               !.conn = c, !.from = "caller"]]
    /\ UNCHANGED <<sigAlive, slotAlive, sig_m_connections, sig_m_mutex,
                   slot_m_connections, slot_m_mutex, m_pSignal, m_pSlot, conn_m_mutex,
                   allocated, erased>>

SignalDisconnectErase(t) ==
    /\ th[t].pc = "disconnect"
    /\ MutexFree(sig_m_mutex[th[t].sig])
    /\ LET s == th[t].sig
           c == th[t].conn
           n == EraseCount(sig_m_connections[s], c)
       IN
        /\ sig_m_connections' = [sig_m_connections EXCEPT ![s] = MapErase(@, c)]
        /\ erased' = [erased EXCEPT ![c] = @ + n]
        /\ IF n = 0
           THEN /\ th' = [th EXCEPT ![t].pc = AfterDisconnect(th[t].from)]
                /\ UNCHANGED sig_m_mutex
           ELSE /\ th' = [th EXCEPT ![t].pc = "disconnect_conn",
                                    ![t].removed = @ \cup {c}]
                /\ sig_m_mutex' = [sig_m_mutex EXCEPT ![s] = t]
    /\ UNCHANGED <<sigAlive, slotAlive, slot_m_connections, slot_m_mutex, m_pSignal,
                   m_pSlot, conn_m_mutex, allocated>>

SignalDisconnectConn(t) ==
    /\ th[t].pc = "disconnect_conn"
    /\ CanLock(conn_m_mutex[th[t].conn], t)
    /\ LET s == th[t].sig
           c == th[t].conn
           pSlot == m_pSlot[c]
       IN
        /\ m_pSignal' = [m_pSignal EXCEPT ![c] = nullptr]
        /\ IF pSlot # nullptr
           THEN /\ conn_m_mutex' = [conn_m_mutex EXCEPT ![c] = RLock(@, t)]
                /\ th' = [th EXCEPT ![t].pc = "disconnect_slot", ![t].pSlot = pSlot]
                /\ UNCHANGED sig_m_mutex
           ELSE /\ th' = [th EXCEPT ![t].pc = AfterDisconnect(th[t].from)]
                /\ sig_m_mutex' = [sig_m_mutex EXCEPT ![s] = NoThread]
                /\ UNCHANGED conn_m_mutex
    /\ UNCHANGED <<sigAlive, slotAlive, sig_m_connections, slot_m_connections,
                   slot_m_mutex, m_pSlot, allocated, erased>>

SignalDisconnectSlot(t) ==
    /\ th[t].pc = "disconnect_slot"
    /\ CanLock(slot_m_mutex[th[t].pSlot], t)
    /\ LET s == th[t].sig
           c == th[t].conn
           pSlot == th[t].pSlot
       IN
        /\ slot_m_connections' = [slot_m_connections EXCEPT ![pSlot] = SetErase(@, c)]
        /\ m_pSlot' = [m_pSlot EXCEPT ![c] = nullptr]
        /\ conn_m_mutex' = [conn_m_mutex EXCEPT ![c] = RUnlock(@)]
        /\ sig_m_mutex' = [sig_m_mutex EXCEPT ![s] = NoThread]
        /\ th' = [th EXCEPT ![t].pc = AfterDisconnect(th[t].from), ![t].pSlot = nullptr]
    /\ UNCHANGED <<sigAlive, slotAlive, sig_m_connections, slot_m_mutex, m_pSignal,
                   allocated, erased>>

(* Connection::disconnect *)

HasSignal(conn) == m_pSignal[conn] # nullptr

ConnectionDisconnect(t, c) ==
    /\ th[t].pc = "idle"
    /\ c \in 1..allocated
    /\ CanLock(conn_m_mutex[c], t)
    /\ IF HasSignal(c)
       THEN /\ conn_m_mutex' = [conn_m_mutex EXCEPT ![c] = RLock(@, t)]
            /\ th' = [th EXCEPT ![t] =
                          [Idle EXCEPT !.pc = "disconnect", !.op = "Connection::disconnect",
                                       !.sig = m_pSignal[c], !.conn = c, !.from = "conn"]]
       ELSE /\ th' = [th EXCEPT ![t] =
                          [Idle EXCEPT !.pc = "done", !.op = "Connection::disconnect",
                                       !.conn = c]]
            /\ UNCHANGED conn_m_mutex
    /\ UNCHANGED <<sigAlive, slotAlive, sig_m_connections, sig_m_mutex,
                   slot_m_connections, slot_m_mutex, m_pSignal, m_pSlot, allocated,
                   erased>>

ConnectionDisconnectUnlock(t) ==
    /\ th[t].pc = "conn_unlock"
    /\ conn_m_mutex' = [conn_m_mutex EXCEPT ![th[t].conn] = RUnlock(@)]
    /\ th' = [th EXCEPT ![t].pc = "done"]
    /\ UNCHANGED <<sigAlive, slotAlive, sig_m_connections, sig_m_mutex,
                   slot_m_connections, slot_m_mutex, m_pSignal, m_pSlot, allocated,
                   erased>>

----------------------------------------------------------------------------
(* Slot::~Slot *)

Connected_never(conn) == FALSE

Connected(conn) == m_pSignal[conn] # nullptr

(* conn->m_pSlot = nullptr, before the Signal is asked to disconnect *)

DetachSlot_skipped(conn) == m_pSlot

DetachSlot(conn) == [m_pSlot EXCEPT ![conn] = nullptr]

SlotDestroyBegin(t, sl) ==
    /\ th[t].pc = "idle"
    /\ slotAlive[sl]
    /\ \A u \in Threads : ~UsesSlot(u, sl)
    /\ CanLock(slot_m_mutex[sl], t)
    /\ slot_m_mutex' = [slot_m_mutex EXCEPT ![sl] = RLock(@, t)]
    /\ th' = [th EXCEPT ![t] =
                  [Idle EXCEPT !.pc = "slot_loop", !.op = "~Slot", !.slot = sl,
                               !.iter = slot_m_connections[sl],
                               !.set0 = slot_m_connections[sl]]]
    /\ UNCHANGED <<sigAlive, slotAlive, sig_m_connections, sig_m_mutex,
                   slot_m_connections, m_pSignal, m_pSlot, conn_m_mutex, allocated,
                   erased>>

SlotDestroyVisit(t) ==
    /\ th[t].pc = "slot_loop"
    /\ th[t].iter # {}
    /\ LET conn == First(th[t].iter) IN
        /\ CanLock(conn_m_mutex[conn], t)
        /\ IF Connected(conn)
           THEN /\ m_pSlot' = DetachSlot(conn)
                /\ m_pSignal' = [m_pSignal EXCEPT ![conn] = nullptr]
                /\ conn_m_mutex' = [conn_m_mutex EXCEPT ![conn] = RLock(@, t)]
                /\ th' = [th EXCEPT ![t].pc = "disconnect", ![t].sig = m_pSignal[conn],
                                    ![t].conn = conn, ![t].from = "slot"]
           ELSE /\ th' = [th EXCEPT ![t].iter = @ \ {conn}]
                /\ UNCHANGED <<m_pSlot, m_pSignal, conn_m_mutex>>
    /\ UNCHANGED <<sigAlive, slotAlive, sig_m_connections, sig_m_mutex,
                   slot_m_connections, slot_m_mutex, allocated, erased>>

SlotDestroyNext(t) ==
    /\ th[t].pc = "slot_next"
    /\ conn_m_mutex' = [conn_m_mutex EXCEPT ![th[t].conn] = RUnlock(@)]
    /\ th' = [th EXCEPT ![t].pc = "slot_loop", ![t].iter = @ \ {th[t].conn},
                        ![t].sig = nullptr, ![t].conn = 0, ![t].from = "none"]
    /\ UNCHANGED <<sigAlive, slotAlive, sig_m_connections, sig_m_mutex,
                   slot_m_connections, slot_m_mutex, m_pSignal, m_pSlot, allocated,
                   erased>>

SlotDestroyEnd(t) ==
    /\ th[t].pc = "slot_loop"
    /\ th[t].iter = {}
    /\ slot_m_mutex' = [slot_m_mutex EXCEPT ![th[t].slot] = RUnlock(@)]
    /\ slot_m_connections' = [slot_m_connections EXCEPT ![th[t].slot] = {}]
    /\ slotAlive' = [slotAlive EXCEPT ![th[t].slot] = FALSE]
    /\ th' = [th EXCEPT ![t].pc = "done"]
    /\ UNCHANGED <<sigAlive, sig_m_connections, sig_m_mutex, m_pSignal, m_pSlot,
                   conn_m_mutex, allocated, erased>>

----------------------------------------------------------------------------
(* Signal::disconnectAll, called directly or by Signal::~Signal *)

DisconnectAllBegin(t, s, op) ==
    /\ CanCall(t, s)
    /\ op = "~Signal" => \A u \in Threads : ~UsesSignal(u, s)
    /\ MutexFree(sig_m_mutex[s])
    /\ sig_m_mutex' = [sig_m_mutex EXCEPT ![s] = t]
    /\ th' = [th EXCEPT ![t] =
                  [Idle EXCEPT !.pc = "all_loop", !.op = op, !.sig = s,
                               !.iter = Keys(sig_m_connections[s]),
                               !.snap = sig_m_connections[s]]]
    /\ UNCHANGED <<sigAlive, slotAlive, sig_m_connections, slot_m_connections,
                   slot_m_mutex, m_pSignal, m_pSlot, conn_m_mutex, allocated, erased>>

DisconnectAllVisit(t) ==
    /\ th[t].pc = "all_loop"
    /\ th[t].iter # {}
    /\ LET conn == First(th[t].iter)
           pSlot == m_pSlot[conn]
       IN
        /\ CanLock(conn_m_mutex[conn], t)
        /\ m_pSignal' = [m_pSignal EXCEPT ![conn] = nullptr]
        /\ IF pSlot # nullptr
           THEN /\ conn_m_mutex' = [conn_m_mutex EXCEPT ![conn] = RLock(@, t)]
                /\ th' = [th EXCEPT ![t].pc = "all_slot", ![t].conn = conn,
                                    ![t].pSlot = pSlot]
           ELSE /\ th' = [th EXCEPT ![t].iter = @ \ {conn}]
                /\ UNCHANGED conn_m_mutex
    /\ UNCHANGED <<sigAlive, slotAlive, sig_m_connections, sig_m_mutex,
                   slot_m_connections, slot_m_mutex, m_pSlot, allocated, erased>>

DisconnectAllSlot(t) ==
    /\ th[t].pc = "all_slot"
    /\ CanLock(slot_m_mutex[th[t].pSlot], t)
    /\ LET conn == th[t].conn
           pSlot == th[t].pSlot
       IN
        /\ slot_m_connections' = [slot_m_connections EXCEPT ![pSlot] = SetErase(@, conn)]
        /\ conn_m_mutex' = [conn_m_mutex EXCEPT ![conn] = RUnlock(@)]
        /\ th' = [th EXCEPT ![t].pc = "all_loop", ![t].iter = @ \ {conn},
                            ![t].conn = 0, ![t].pSlot = nullptr]
    /\ UNCHANGED <<sigAlive, slotAlive, sig_m_connections, sig_m_mutex, slot_m_mutex,
                   m_pSignal, m_pSlot, allocated, erased>>

DisconnectAllEnd(t) ==
    /\ th[t].pc = "all_loop"
    /\ th[t].iter = {}
    /\ LET s == th[t].sig
           gone == DOMAIN sig_m_connections[s]
       IN
        /\ sig_m_connections' = [sig_m_connections EXCEPT ![s] = MapClear(@)]
        /\ erased' = [c \in Conns |-> IF c \in gone THEN erased[c] + 1 ELSE erased[c]]
        /\ sig_m_mutex' = [sig_m_mutex EXCEPT ![s] = NoThread]
        /\ sigAlive' = [sigAlive EXCEPT ![s] = th[t].op # "~Signal"]
        /\ th' = [th EXCEPT ![t].pc = "done", ![t].removed = gone]
    /\ UNCHANGED <<slotAlive, slot_m_connections, slot_m_mutex, m_pSignal, m_pSlot,
                   conn_m_mutex, allocated>>

----------------------------------------------------------------------------
(* Signal::emit *)

Invocation(tbl, conn, args) ==
    [conn |-> conn, fn |-> tbl[conn], args |-> args,
     live |-> IF tbl[conn] \in Slots THEN slotAlive[tbl[conn]] ELSE TRUE]

EmitBegin(t, s, args) ==
    /\ CanCall(t, s)
    /\ MutexFree(sig_m_mutex[s])
    /\ sig_m_mutex' = [sig_m_mutex EXCEPT ![s] = t]
    /\ th' = [th EXCEPT ![t] =
                  [Idle EXCEPT !.pc = "emit_loop", !.op = "emit", !.sig = s,
                               !.args = args, !.iter = Keys(sig_m_connections[s]),
                               !.snap = sig_m_connections[s],
                               !.dead0 = {sl \in Slots : ~slotAlive[sl]}]]
    /\ UNCHANGED <<sigAlive, slotAlive, sig_m_connections, slot_m_connections,
                   slot_m_mutex, m_pSignal, m_pSlot, conn_m_mutex, allocated, erased>>

EmitInvoke(t) ==
    /\ th[t].pc = "emit_loop"
    /\ th[t].iter # {}
    /\ LET kv == First(th[t].iter) IN
        th' = [th EXCEPT ![t].iter = @ \ {kv},
                         ![t].calls = Append(@, Invocation(sig_m_connections[th[t].sig],
                                                           kv, th[t].args))]
    /\ UNCHANGED <<sigAlive, slotAlive, sig_m_connections, sig_m_mutex,
                   slot_m_connections, slot_m_mutex, m_pSignal, m_pSlot, conn_m_mutex,
                   allocated, erased>>

EmitEnd(t) ==
    /\ th[t].pc = "emit_loop"
    /\ th[t].iter = {}
    /\ sig_m_mutex' = [sig_m_mutex EXCEPT ![th[t].sig] = NoThread]
    /\ th' = [th EXCEPT ![t].pc = "done"]
    /\ UNCHANGED <<sigAlive, slotAlive, sig_m_connections, slot_m_connections,
                   slot_m_mutex, m_pSignal, m_pSlot, conn_m_mutex, allocated, erased>>

(* Signal::operator() *)

CallBegin(t, s, args) ==
    /\ CanCall(t, s)
    /\ MutexFree(sig_m_mutex[s])
    /\ sig_m_mutex' = [sig_m_mutex EXCEPT ![s] = t]
    /\ th' = [th EXCEPT ![t] =
                  [Idle EXCEPT !.pc = "call_loop", !.op = "operator()", !.sig = s,
                               !.args = args, !.iter = Keys(sig_m_connections[s]),
                               !.snap = sig_m_connections[s],
                               !.dead0 = {sl \in Slots : ~slotAlive[sl]}]]
    /\ UNCHANGED <<sigAlive, slotAlive, sig_m_connections, slot_m_connections,
                   slot_m_mutex, m_pSignal, m_pSlot, conn_m_mutex, allocated, erased>>

CallInvoke(t) ==
    /\ th[t].pc = "call_loop"
    /\ th[t].iter # {}
    /\ LET kv == First(th[t].iter) IN
        th' = [th EXCEPT ![t].iter = @ \ {kv},
                         ![t].calls = Append(@, Invocation(sig_m_connections[th[t].sig],
                                                           kv, th[t].args))]
    /\ UNCHANGED <<sigAlive, slotAlive, sig_m_connections, sig_m_mutex,
                   slot_m_connections, slot_m_mutex, m_pSignal, m_pSlot, conn_m_mutex,
                   allocated, erased>>

CallEnd(t) ==
    /\ th[t].pc = "call_loop"
    /\ th[t].iter = {}
    /\ sig_m_mutex' = [sig_m_mutex EXCEPT ![th[t].sig] = NoThread]
    /\ th' = [th EXCEPT ![t].pc = "done"]
    /\ UNCHANGED <<sigAlive, slotAlive, sig_m_connections, slot_m_connections,
                   slot_m_mutex, m_pSignal, m_pSlot, conn_m_mutex, allocated, erased>>

----------------------------------------------------------------------------
(* Listeners that do more than return.  kv.second(args...) runs inside the  *)
(* range-for of emit / operator(), under the Signal's lock_guard.           *)

BroadcastLoop(t) == th[t].pc \in {"emit_loop", "call_loop"} /\ th[t].iter # {}

LoopOf(op) == IF op = "emit" THEN "emit_loop" ELSE "call_loop"

(* ~lock_guard during stack unwinding *)

Unwound_held(m) == m

Unwound(m) == NoThread

(* The listener throws: the exception leaves emit through its lock_guard *)

ListenerThrows(t) ==
    /\ BroadcastLoop(t)
    /\ LET kv == First(th[t].iter)
           s == th[t].sig
       IN
        /\ sig_m_mutex' = [sig_m_mutex EXCEPT ![s] = Unwound(@)]
        /\ th' = [th EXCEPT ![t].pc = "done", ![t].raised = TRUE,
                            ![t].iter = @ \ {kv},
                            ![t].calls = Append(@, Invocation(sig_m_connections[s], kv,
                                                              th[t].args))]
    /\ UNCHANGED <<sigAlive, slotAlive, sig_m_connections, slot_m_connections,
                   slot_m_mutex, m_pSignal, m_pSlot, conn_m_mutex, allocated, erased>>

(* The listener calls a member function of the Signal that is emitting, or  *)
(* disconnect() of a Connection registered on it.  Each of them begins with *)
(* std::lock_guard<std::mutex> on m_mutex, which this thread owns already   *)
(* (Connection::disconnect locks the Connection first).                     *)

NestedOps == {"connect", "connectSlot", "disconnect", "disconnectAll", "emit",
              "operator()", "count", "Connection::disconnect"}

ListenerCallsBack(t, nop, c) ==
    /\ BroadcastLoop(t)
    /\ nop \in NestedOps
    /\ LET kv == First(th[t].iter)
           s == th[t].sig
       IN
        /\ IF nop = "Connection::disconnect"
           THEN /\ c \in 1..allocated
                /\ m_pSignal[c] = s
                /\ CanLock(conn_m_mutex[c], t)
                /\ conn_m_mutex' = [conn_m_mutex EXCEPT ![c] = RLock(@, t)]
           ELSE /\ c = 0
                /\ UNCHANGED conn_m_mutex
        /\ th' = [th EXCEPT ![t].pc = "relock", ![t].nested = nop, ![t].conn = c,
                            ![t].iter = @ \ {kv},
                            ![t].calls = Append(@, Invocation(sig_m_connections[s], kv,
                                                              th[t].args))]
    /\ UNCHANGED <<sigAlive, slotAlive, sig_m_connections, sig_m_mutex,
                   slot_m_connections, slot_m_mutex, m_pSignal, m_pSlot, allocated,
                   erased>>

(* std::mutex::lock() by the owning thread is undefined.  The two outcomes   *)
(* the C++ standard names: the thread blocks for ever (no step is taken at  *)
(* "relock"), or lock() throws std::system_error                            *)
(* (resource_deadlock_would_occur).  The listener catches the exception and *)
(* returns, or lets it leave emit.                                          *)

RelockThrows(t, caught) ==
    /\ th[t].pc = "relock"
    /\ LET s == th[t].sig
           c == th[t].conn
       IN
        /\ conn_m_mutex' = IF th[t].nested = "Connection::disconnect"
                           THEN [conn_m_mutex EXCEPT ![c] = RUnlock(@)]
                           ELSE conn_m_mutex
        /\ IF caught
           THEN /\ th' = [th EXCEPT ![t].pc = LoopOf(th[t].op), ![t].conn = 0]
                /\ UNCHANGED sig_m_mutex
           ELSE /\ th' = [th EXCEPT ![t].pc = "done", ![t].raised = TRUE, ![t].conn = 0]
                /\ sig_m_mutex' = [sig_m_mutex EXCEPT ![s] = Unwound(@)]
    /\ UNCHANGED <<sigAlive, slotAlive, sig_m_connections, slot_m_connections,
                   slot_m_mutex, m_pSignal, m_pSlot, allocated, erased>>

Listen(T) ==
    \E t \in T :
        \/ ListenerThrows(t)
        \/ \E nop \in NestedOps, c \in Conns \cup {0} : ListenerCallsBack(t, nop, c)
        \/ \E caught \in BOOLEAN : RelockThrows(t, caught)

----------------------------------------------------------------------------

(* The calls that threads T make on the Signals SS and the Slots SL, emitting *)
(* arguments from AS and creating at most `limit` Connections               *)
Step(T, SS, SL, AS, limit) ==
    \E t \in T :
        \/ \E s \in SS : Connect(t, s, limit)
        \/ \E s \in SS, sl \in SL : ConnectSlotLockSignal(t, s, sl, limit)
        \/ ConnectSlotInsert(t)
        \/ \E s \in SS : CountCall(t, s)
        \/ \E s \in SS, c \in Conns : SignalDisconnectBegin(t, s, c)
        \/ SignalDisconnectErase(t)
        \/ SignalDisconnectConn(t)
        \/ SignalDisconnectSlot(t)
        \/ \E c \in Conns : ConnectionDisconnect(t, c)
        \/ ConnectionDisconnectUnlock(t)
        \/ \E sl \in SL : SlotDestroyBegin(t, sl)
        \/ SlotDestroyVisit(t)
        \/ SlotDestroyNext(t)
        \/ SlotDestroyEnd(t)
        \/ \E s \in SS, op \in {"disconnectAll", "~Signal"} : DisconnectAllBegin(t, s, op)
        \/ DisconnectAllVisit(t)
        \/ DisconnectAllSlot(t)
        \/ DisconnectAllEnd(t)
        \/ \E s \in SS, args \in AS : EmitBegin(t, s, args)
        \/ EmitInvoke(t)
        \/ EmitEnd(t)
        \/ \E s \in SS, args \in AS : CallBegin(t, s, args)
        \/ CallInvoke(t)
        \/ CallEnd(t)
        \/ Return(t)

(* Two threads calling concurrently, on two Signals and one Slot *)
Next == Step(Threads, Signals, {"A"}, {10}, MaxConcurrentConns)

Spec == Init /\ [][Next]_vars

(* One thread, one Signal, two Slots: every call runs to its return before *)
(* the next begins                                                        *)
NextSingle == Step({"t1"}, {"S1"}, Slots, EmitArgs, MaxConns)

SpecSingle == Init /\ [][NextSingle]_vars

(* The calls of Step without the destructors and without operator(), whose *)
(* body is that of emit                                                    *)
Calls(T, SS, SL, AS, limit) ==
    \E t \in T :
        \/ \E s \in SS : Connect(t, s, limit)
        \/ \E s \in SS, sl \in SL : ConnectSlotLockSignal(t, s, sl, limit)
        \/ ConnectSlotInsert(t)
        \/ \E s \in SS : CountCall(t, s)
        \/ \E s \in SS, c \in Conns : SignalDisconnectBegin(t, s, c)
        \/ SignalDisconnectErase(t)
        \/ SignalDisconnectConn(t)
        \/ SignalDisconnectSlot(t)
        \/ \E c \in Conns : ConnectionDisconnect(t, c)
        \/ ConnectionDisconnectUnlock(t)
        \/ \E s \in SS : DisconnectAllBegin(t, s, "disconnectAll")
        \/ DisconnectAllVisit(t)
        \/ DisconnectAllSlot(t)
        \/ DisconnectAllEnd(t)
        \/ \E s \in SS, args \in AS : EmitBegin(t, s, args)
        \/ EmitInvoke(t)
        \/ EmitEnd(t)
        \/ Return(t)

(* Two threads on one Signal whose listeners may throw or call back into it *)
NextListener == Calls(Threads, {"S1"}, {"A"}, {10}, MaxConcurrentConns) \/ Listen(Threads)

SpecListener == Init /\ [][NextListener]_vars

----------------------------------------------------------------------------
(* Properties *)

Called == {c \in Conns : c <= allocated}

Holders(c) == {s \in Signals : c \in DOMAIN sig_m_connections[s]}

Returned(t, op) == th[t].pc = "done" /\ th[t].op = op

(* C1: however many disconnect attempts reach a Connection, through whichever  *)
(* entry points, it is erased from its Signal's table exactly once: at most one *)
(* attempt removes it, a created Connection is missing from the tables iff it   *)
(* was erased once, so the counts drop by exactly one per erased Connection.    *)
C1_ErasedExactlyOnce ==
    /\ \A c \in Conns :
        /\ erased[c] <= 1
        /\ Cardinality({t \in Threads : c \in th[t].removed}) <= erased[c]
        /\ c \in Called => Cardinality(Holders(c)) = 1 - erased[c]
        /\ c \notin Called => Holders(c) = {} /\ erased[c] = 0
    /\ \A t \in Threads :
        (th[t].pc = "done" /\ th[t].op \in {"disconnect", "Connection::disconnect"})
            => m_pSignal[th[t].conn] = nullptr \/ th[t].sig \notin Holders(th[t].conn)

(* Two overlapping attempts on the same Connection through different entry *)
(* points: Connection::disconnect has removed it and is about to return,   *)
(* Signal::disconnect ran meanwhile, found nothing to erase and returned   *)
C1_Witness ==
    /\ th["t1"].pc = "conn_unlock"
    /\ th["t1"].op = "Connection::disconnect"
    /\ Returned("t2", "disconnect")
    /\ th["t1"].conn = th["t2"].conn
    /\ th["t1"].sig = th["t2"].sig
    /\ th["t1"].removed = {th["t1"].conn}
    /\ th["t2"].removed = {}
    /\ erased[th["t1"].conn] = 1

(* The mutex a thread has to acquire to take its next step *)
Wanted(t) ==
    CASE th[t].pc = "connect_slot" -> slot_m_mutex[th[t].slot].owner
      [] th[t].pc \in {"disconnect", "relock"} -> sig_m_mutex[th[t].sig]
      [] th[t].pc = "disconnect_conn" -> conn_m_mutex[th[t].conn].owner
      [] th[t].pc \in {"disconnect_slot", "all_slot"} -> slot_m_mutex[th[t].pSlot].owner
      [] th[t].pc \in {"slot_loop", "all_loop"} /\ th[t].iter # {} ->
             conn_m_mutex[First(th[t].iter)].owner
      [] OTHER -> NoThread

WaitsFor(t, u) == t # u /\ Wanted(t) = u

(* C2: no two threads inside calls wait for a mutex the other one holds *)
C2_NoDeadlock == ~ \E t, u \in Threads : WaitsFor(t, u) /\ WaitsFor(u, t)

(* C3: one emit, or one call of operator(), invokes every callable that was in *)
(* the table when it locked the Signal exactly once, with its arguments, and   *)
(* nothing else; the table stays as it was until the broadcast is over.        *)
Broadcasting(t) == th[t].op \in {"emit", "operator()"}

TimesInvoked(t, c) == Cardinality({i \in 1..Len(th[t].calls) : th[t].calls[i].conn = c})

C3_EachCallableOnce ==
    \A t \in Threads :
        Broadcasting(t) =>
            /\ \A c \in Conns :
                TimesInvoked(t, c) = IF c \in DOMAIN th[t].snap \ th[t].iter THEN 1 ELSE 0
            /\ \A i \in 1..Len(th[t].calls) :
                /\ th[t].calls[i].fn = th[t].snap[th[t].calls[i].conn]
                /\ th[t].calls[i].args = th[t].args
            /\ th[t].pc = "done" => th[t].iter = {}
            /\ th[t].pc # "done" => sig_m_connections[th[t].sig] = th[t].snap

(* emit and operator() have each returned after invoking the same two *)
(* callables, a free function and a bound method                      *)
C3_Witness ==
    /\ Returned("t1", "emit")
    /\ Returned("t2", "operator()")
    /\ th["t1"].snap = th["t2"].snap
    /\ Len(th["t1"].calls) = 2
    /\ Len(th["t2"].calls) = 2
    /\ {th["t1"].calls[i].fn : i \in 1..2} = {FreeFunction, "A"}
    /\ {th["t2"].calls[i].fn : i \in 1..2} = {FreeFunction, "A"}

(* C4: a connect that returns hands out a handle no earlier connect returned, *)
(* adds exactly that handle to its Signal's table and so raises count() by 1, *)
(* leaving the other tables alone; a Signal that received all N connects made *)
(* so far and no disconnect has count() = N.                                  *)
ConnectReturns(t) ==
    /\ th[t].pc # "done"
    /\ th'[t].pc = "done"
    /\ th'[t].op \in {"connect", "connectSlot"}

C4_ConnectStep ==
    \A t \in Threads :
        ConnectReturns(t) =>
            \E s \in Signals, c \in Conns :
                /\ s = th'[t].sig
                /\ c = th'[t].ret
                /\ c \notin Called
                /\ Holders(c) = {}
                /\ DOMAIN sig_m_connections'[s] = DOMAIN sig_m_connections[s] \cup {c}
                /\ count(s)' = count(s) + 1
                /\ \A k \in DOMAIN sig_m_connections[s] :
                    sig_m_connections'[s][k] = sig_m_connections[s][k]
                /\ \A o \in Signals \ {s} : sig_m_connections'[o] = sig_m_connections[o]

C4_CountIsN ==
    \A s \in Signals :
        (\A c \in Called : m_pSignal[c] = s /\ erased[c] = 0) => count(s) = allocated

C4_ConnectAddsOne == [][C4_ConnectStep]_vars /\ []C4_CountIsN

(* Two connects of different kinds on one fresh Signal, nothing disconnected *)
C4_Witness ==
    /\ Returned("t1", "connectSlot")
    /\ Returned("t2", "connect")
    /\ th["t1"].sig = th["t2"].sig
    /\ th["t1"].ret # th["t2"].ret
    /\ count(th["t1"].sig) = 2
    /\ allocated = 2

(* C5: Signal::disconnect(c) with c not a key of this Signal's table returns   *)
(* at once and changes nothing: no table, no back-reference, no Slot set.      *)
MissesTable(t) ==
    /\ th[t].pc = "disconnect"
    /\ th'[t].pc # "disconnect"
    /\ th[t].conn \notin DOMAIN sig_m_connections[th[t].sig]

C5_ForeignStep ==
    \A t \in Threads :
        MissesTable(t) =>
            /\ th'[t].pc = AfterDisconnect(th[t].from)
            /\ th'[t].removed = th[t].removed
            /\ UNCHANGED <<sig_m_connections, slot_m_connections, m_pSignal, m_pSlot,
                           erased, sig_m_mutex, conn_m_mutex, slot_m_mutex>>

C5_ForeignHandleNoOp == [][C5_ForeignStep]_vars

(* S1.disconnect(c) has returned without removing anything; c is a bound    *)
(* method's Connection registered on S2 and is still fully registered there *)
C5_Witness ==
    \E t \in Threads :
        /\ Returned(t, "disconnect")
        /\ th[t].removed = {}
        /\ th[t].sig = "S1"
        /\ Holders(th[t].conn) = {"S2"}
        /\ m_pSignal[th[t].conn] = "S2"
        /\ m_pSlot[th[t].conn] = "A"
        /\ th[t].conn \in slot_m_connections["A"]

(* C6: ~Slot erases, one by one, exactly the Connections that were in the Slot's *)
(* set, each from the table of its Signal and each lowering that count by one,   *)
(* and a broadcast that starts after the Slot is gone holds no bound method of   *)
(* it.                                                                           *)
SlotErases(t) ==
    /\ th[t].op = "~Slot"
    /\ th[t].pc = "disconnect"
    /\ th'[t].pc # "disconnect"

C6_SlotStep ==
    \A t \in Threads :
        SlotErases(t) =>
            \E s \in Signals :
                /\ s = th[t].sig
                /\ th[t].conn \in DOMAIN sig_m_connections[s]
                /\ sig_m_connections[s][th[t].conn] = th[t].slot
                /\ count(s)' = count(s) - 1
                /\ \A o \in Signals \ {s} : count(o)' = count(o)

C6_SlotGone ==
    \A t \in Threads :
        /\ Returned(t, "~Slot") =>
            /\ th[t].removed = th[t].set0
            /\ ~slotAlive[th[t].slot]
            /\ \A s \in Signals : sig_m_mutex[s] = NoThread =>
                   \A c \in DOMAIN sig_m_connections[s] :
                       sig_m_connections[s][c] # th[t].slot
        /\ Broadcasting(t) =>
            /\ \A c \in DOMAIN th[t].snap : th[t].snap[c] \notin th[t].dead0
            /\ \A i \in 1..Len(th[t].calls) : th[t].calls[i].fn \notin th[t].dead0

C6_SlotTeardown == [][C6_SlotStep]_vars /\ []C6_SlotGone

(* ~Slot has returned after removing two Connections, one from each Signal, *)
(* and a broadcast that started afterwards is running on one of them        *)
C6_Witness ==
    /\ Returned("t1", "~Slot")
    /\ th["t1"].set0 = {1, 2}
    /\ th["t1"].removed = {1, 2}
    /\ count("S1") = 0
    /\ count("S2") = 0
    /\ erased[1] = 1
    /\ erased[2] = 1
    /\ th["t2"].pc = "emit_loop"
    /\ th["t2"].dead0 = {"A"}

(* C7: after ~Signal, every Connection that was registered on the Signal has *)
(* m_pSignal and m_pSlot both null                                           *)
C7_BothNullAfterSignalDies ==
    \A t \in Threads :
        Returned(t, "~Signal") =>
            \A c \in DOMAIN th[t].snap : m_pSignal[c] = nullptr /\ m_pSlot[c] = nullptr

(* C8: disconnectAll returns with an empty table and with none of the Signal's *)
(* Connections left in any Slot's set, and no broadcast invokes a callable     *)
(* whose Connection was removed before the broadcast began.                    *)
AllReturns(t) ==
    /\ th[t].pc = "all_loop"
    /\ th'[t].pc = "done"

C8_AllStep ==
    \A t \in Threads :
        AllReturns(t) =>
            \E s \in Signals :
                /\ s = th[t].sig
                /\ count(s)' = 0
                /\ DOMAIN th[t].snap = DOMAIN sig_m_connections[s]
                /\ \A sl \in Slots : slot_m_connections'[sl] \cap DOMAIN th[t].snap = {}
                /\ \A c \in DOMAIN th[t].snap : m_pSignal'[c] = nullptr

C8_NoneInvokedLater ==
    \A t \in Threads :
        th[t].pc \in {"emit_loop", "call_loop"} =>
            \A c \in DOMAIN th[t].snap : erased[c] = 0

C8_DisconnectAll == [][C8_AllStep]_vars /\ []C8_NoneInvokedLater

(* disconnectAll has returned after removing a free function and a bound *)
(* method, and a broadcast that began afterwards has nothing to invoke   *)
C8_Witness ==
    /\ Returned("t1", "disconnectAll")
    /\ DOMAIN th["t1"].snap = {1, 2}
    /\ {th["t1"].snap[c] : c \in {1, 2}} = {FreeFunction, "A"}
    /\ slot_m_connections["A"] = {}
    /\ th["t2"].pc = "emit_loop"
    /\ th["t2"].sig = th["t1"].sig
    /\ th["t2"].snap = EmptyMap

(* C9: a step of Connection::disconnect or Signal::disconnect changes the     *)
(* registration of its own Connection only, and a step of ~Slot only that of  *)
(* Connections bound to the dying Slot: every other Connection keeps its      *)
(* table entry, its callable, both back-references and its place in a Slot's  *)
(* set (and so, by C3, is invoked by the next emit).                          *)
Registration(c) ==
    [tables |-> {<<s, sig_m_connections[s][c]>> : s \in Holders(c)},
     signal |-> m_pSignal[c],
     slot |-> m_pSlot[c],
     sets |-> {sl \in Slots : c \in slot_m_connections[sl]}]

BoundTo(c, sl) ==
    \/ m_pSlot[c] = sl
    \/ c \in slot_m_connections[sl]
    \/ \E s \in Holders(c) : sig_m_connections[s][c] = sl

MayTouch(t, c) ==
    CASE th[t].op \in {"disconnect", "Connection::disconnect"} -> c = th[t].conn
      [] th[t].op = "~Slot" -> BoundTo(c, th[t].slot)
      [] th[t].op \in {"disconnectAll", "~Signal"} -> c \in DOMAIN th[t].snap
      [] OTHER -> FALSE

C9_OthersKept ==
    \A c \in Called :
        Registration(c)' # Registration(c) =>
            \E t \in Threads : th'[t] # th[t] /\ MayTouch(t, c)

C9_OnlyOwnTargets == [][C9_OthersKept]_vars

(* The README run just before its disconnectAll: of three free functions and *)
(* one bound method, two free functions were disconnected one at a time, the *)
(* Slot has now been destroyed and took only its own Connection along; the   *)
(* third free function is still registered, untouched: count() = 1.          *)
C9_Witness ==
    /\ Returned("t1", "~Slot")
    /\ allocated = 4
    /\ th["t1"].removed = {4}
    /\ erased = [c \in Conns |-> IF c = 3 THEN 0 ELSE 1]
    /\ count("S1") = 1
    /\ Registration(3) =
           [tables |-> {<<"S1", FreeFunction>>}, signal |-> "S1", slot |-> nullptr,
            sets |-> {}]

(* C10: no Connection holds a back-reference to a destroyed Signal or Slot *)
C10_NoDanglingBackReference ==
    \A c \in Conns :
        /\ m_pSignal[c] # nullptr => sigAlive[m_pSignal[c]]
        /\ m_pSlot[c] # nullptr => slotAlive[m_pSlot[c]]

(* C11: while a thread is inside emit (or operator()) on a Signal, no step of *)
(* any call changes that Signal's table; the emitting thread owns the Signal's *)
(* mutex throughout, the table is the one it found when it locked, and the     *)
(* callables it has invoked when it returns are exactly that table's.          *)
Emitting(t, s) == th[t].pc \in {"emit_loop", "call_loop"} /\ th[t].sig = s

C11_TableStep ==
    \A s \in Signals :
        (\E t \in Threads : Emitting(t, s)) =>
            sig_m_connections'[s] = sig_m_connections[s]

C11_Snapshot ==
    \A t \in Threads :
        /\ \A s \in Signals :
            Emitting(t, s) =>
                /\ sig_m_mutex[s] = t
                /\ sig_m_connections[s] = th[t].snap
                /\ \A u \in Threads \ {t} : ~Emitting(u, s)
        /\ (Broadcasting(t) /\ th[t].pc = "done" /\ ~th[t].raised) =>
                {<<th[t].calls[i].conn, th[t].calls[i].fn>> : i \in 1..Len(th[t].calls)}
                    = {<<c, th[t].snap[c]>> : c \in DOMAIN th[t].snap}

C11_EmitExcludesMutation == [][C11_TableStep]_vars /\ []C11_Snapshot

(* An emit has invoked the first of its two callables; meanwhile ~Slot of the *)
(* other callable's object has reached Signal::disconnect and waits for the   *)
(* Signal's mutex                                                             *)
C11_Witness ==
    /\ Emitting("t1", "S1")
    /\ Len(th["t1"].calls) = 1
    /\ Cardinality(th["t1"].iter) = 1
    /\ th["t2"].op = "~Slot"
    /\ th["t2"].pc = "disconnect"
    /\ th["t2"].sig = "S1"
    /\ th["t2"].conn \in DOMAIN th["t1"].snap
    /\ th["t2"].conn \in DOMAIN sig_m_connections["S1"]

(* C12: a thread that is about to acquire a Signal's mutex holds no Slot's   *)
(* mutex: where both are held, the Signal's was acquired first.  The only    *)
(* acquisition of a Signal's mutex that is not the first step of a call is   *)
(* the one at the head of Signal::disconnect.                                *)
AcquiresSignalNext(t) == th[t].pc = "disconnect"

HeldSlots(t) == {sl \in Slots : slot_m_mutex[sl].owner = t}

C12_SignalLockBeforeSlotLock ==
    \A t \in Threads : AcquiresSignalNext(t) => HeldSlots(t) = {}

(* C13 as stated: whenever a Connection's mutex is free, its m_pSignal names *)
(* a Signal iff the Connection is a key of that Signal's table               *)
OwnerIsHolder(c) == \A s \in Signals : m_pSignal[c] = s <=> c \in DOMAIN sig_m_connections[s]

C13_OwnerIffKeyWhenUnlocked ==
    \A c \in Called : conn_m_mutex[c].owner = NoThread => OwnerIsHolder(c)

(* C13: whenever no call that operates on a Connection is in progress (a     *)
(* disconnect of it, a disconnectAll or ~Signal that found it in the table,  *)
(* the ~Slot of the Slot whose set holds it), its m_pSignal names a Signal   *)
(* iff the Connection is a key of that Signal's table.  The Connection's     *)
(* mutex being free is not enough: Signal::disconnect erases the key before  *)
(* it locks the Connection, and disconnectAll clears the table after it has  *)
(* unlocked it.                                                              *)
OperatesOn(t, c) ==
    /\ InCall(t)
    /\ CASE th[t].op \in {"disconnect", "Connection::disconnect"} -> th[t].conn = c
         [] th[t].op = "~Slot" -> c \in th[t].set0
         [] th[t].op \in {"disconnectAll", "~Signal"} -> c \in DOMAIN th[t].snap
         [] OTHER -> FALSE

C13_OwnerIffKeyWhenQuiet ==
    \A c \in Called : (\A t \in Threads : ~OperatesOn(t, c)) => OwnerIsHolder(c)

(* Connection 1 was disconnected through its handle, Connection 2 is a bound *)
(* method connected to S1; both calls have returned                          *)
C13_Witness ==
    /\ Returned("t1", "Connection::disconnect")
    /\ th["t1"].removed = {1}
    /\ m_pSignal[1] = nullptr
    /\ Holders(1) = {}
    /\ Returned("t2", "connectSlot")
    /\ th["t2"].ret = 2
    /\ m_pSignal[2] = "S1"
    /\ Holders(2) = {"S1"}

(* C14: whenever no call that operates on a Connection is in progress, its   *)
(* m_pSlot names a Slot iff the Connection is in that Slot's set, and every   *)
(* member of a live Slot's set has m_pSlot equal to that Slot                 *)
TargetIsSet(c) == \A sl \in Slots : m_pSlot[c] = sl <=> c \in slot_m_connections[sl]

C14_TargetIffInSlotSet ==
    \A c \in Called : (\A t \in Threads : ~OperatesOn(t, c)) => TargetIsSet(c)

(* C15: a Connection is connected once, when it is created: a step never    *)
(* sets the m_pSignal of an existing Connection from null to a Signal or     *)
(* from one Signal to another, never adds an existing Connection to a table  *)
(* or to a Slot's set, and no Connection is a key of two tables.             *)
C15_Step ==
    \A c \in Called :
        /\ m_pSignal'[c] \in {m_pSignal[c], nullptr}
        /\ \A s \in Signals :
            c \in DOMAIN sig_m_connections'[s] => c \in DOMAIN sig_m_connections[s]
        /\ \A sl \in Slots :
            c \in slot_m_connections'[sl] => c \in slot_m_connections[sl]

C15_OneTable == \A c \in Conns : Cardinality(Holders(c)) <= 1

C15_ConnectedOnce == [][C15_Step]_vars /\ []C15_OneTable

(* Connection 1, a bound method on S1, was disconnected; a new connect of the *)
(* same object to the same Signal then returned Connection 2, and 1 stays out *)
C15_Witness ==
    /\ Returned("t1", "disconnect")
    /\ th["t1"].removed = {1}
    /\ th["t1"].sig = "S1"
    /\ m_pSignal[1] = nullptr
    /\ Holders(1) = {}
    /\ 1 \notin slot_m_connections["A"]
    /\ Returned("t2", "connectSlot")
    /\ th["t2"].ret = 2
    /\ Holders(2) = {"S1"}
    /\ slot_m_connections["A"] = {2}

C16_Waiting ==
    \A t \in Threads :
        th[t].pc = "relock" =>
            /\ Broadcasting(t)
            /\ th[t].nested \in NestedOps
            /\ sig_m_mutex[th[t].sig] = t
            /\ sig_m_connections[th[t].sig] = th[t].snap
            /\ th[t].nested = "Connection::disconnect" =>
                   /\ conn_m_mutex[th[t].conn].owner = t
                   /\ m_pSignal[th[t].conn] = th[t].sig
                   /\ th[t].conn \in DOMAIN th[t].snap

C16_EndStep ==
    \A t \in Threads :
        (th[t].pc = "relock" /\ th'[t].pc # "relock") =>
            /\ UNCHANGED <<sig_m_connections, slot_m_connections, m_pSignal, m_pSlot,
                           allocated, erased, sigAlive, slotAlive>>
            /\ th'[t].ret = 0
            /\ th'[t].removed = {}
            /\ \A c \in Conns : conn_m_mutex'[c].owner # t
            /\ \/ th'[t].pc = "done" /\ th'[t].raised
                    /\ sig_m_mutex'[th[t].sig] = NoThread
               \/ th'[t].pc = LoopOf(th[t].op) /\ sig_m_mutex'[th[t].sig] = t

SlotCallsDisconnect(t) ==
    /\ th[t].op = "~Slot"
    /\ th[t].pc = "slot_loop"
    /\ th'[t].pc = "disconnect"

C17_Step ==
    \A t \in Threads :
        SlotCallsDisconnect(t) =>
            /\ th'[t].conn \in slot_m_connections[th[t].slot]
            /\ m_pSlot'[th'[t].conn] = nullptr
            /\ sig_m_connections' = sig_m_connections

C17_InsideDisconnect ==
    \A t \in Threads :
        (th[t].op = "~Slot" /\ InCall(t)) =>
            /\ th[t].pc # "disconnect_slot"
            /\ slot_m_mutex[th[t].slot] = [owner |-> t, depth |-> 1]
            /\ slot_m_connections[th[t].slot] = th[t].set0
            /\ th[t].pc \in {"disconnect", "disconnect_conn", "slot_next"} =>
                   m_pSlot[th[t].conn] = nullptr

C17_SlotClearedBeforeDisconnect == [][C17_Step]_vars /\ []C17_InsideDisconnect

(* ~Slot is inside Signal::disconnect for the second of its two Connections: *)
(* the key is erased, the Connection is still in the Slot's set               *)
C17_Witness ==
    /\ th["t1"].op = "~Slot"
    /\ th["t1"].pc = "disconnect_conn"
    /\ th["t1"].set0 = {1, 2}
    /\ th["t1"].removed = {1, 2}
    /\ th["t1"].conn = 2
    /\ m_pSlot[2] = nullptr
    /\ slot_m_connections["A"] = {1, 2}
    /\ sig_m_mutex[th["t1"].sig] = "t1"

(* C18: the step in which connect(function) returns creates a Connection    *)
(* with m_pSignal the Signal and m_pSlot null, stores the function under it  *)
(* and changes no Slot's set; the step in which connect(slot, method)        *)
(* returns creates a Connection with m_pSignal the Signal and m_pSlot the    *)
(* Slot, stores the bound method under it and adds it to that Slot's set and *)
(* to no other.  Neither touches the back-references of another Connection.  *)
C18_Step ==
    \A t \in Threads :
        ConnectReturns(t) =>
            \E s \in Signals, c \in Conns \ Called :
                /\ s = th'[t].sig
                /\ c = th'[t].ret
                /\ c \in DOMAIN sig_m_connections'[s]
                /\ m_pSignal'[c] = s
                /\ \A k \in Called : m_pSignal'[k] = m_pSignal[k] /\ m_pSlot'[k] = m_pSlot[k]
                /\ IF th'[t].op = "connect"
                   THEN /\ m_pSlot'[c] = nullptr
                        /\ sig_m_connections'[s][c] = FreeFunction
                        /\ slot_m_connections' = slot_m_connections
                   ELSE \E sl \in Slots :
                        /\ sl = th'[t].slot
                        /\ m_pSlot'[c] = sl
                        /\ sig_m_connections'[s][c] = sl
                        /\ c \notin slot_m_connections[sl]
                        /\ slot_m_connections'[sl] = slot_m_connections[sl] \cup {c}
                        /\ \A o \in Slots \ {sl} :
                               slot_m_connections'[o] = slot_m_connections[o]

C18_ConnectFrame == [][C18_Step]_vars

(* After a free function (1) and a method of A (2), a method of B has just *)
(* been connected (3)                                                      *)
C18_Witness ==
    /\ Returned("t1", "connectSlot")
    /\ th["t1"].slot = "B"
    /\ th["t1"].ret = 3
    /\ sig_m_connections["S1"] = (1 :> FreeFunction) @@ (2 :> "A") @@ (3 :> "B")
    /\ m_pSlot[1] = nullptr
    /\ m_pSlot[2] = "A"
    /\ m_pSlot[3] = "B"
    /\ \A c \in 1..3 : m_pSignal[c] = "S1"
    /\ slot_m_connections = [sl \in Slots |-> IF sl = "A" THEN {2} ELSE {3}]

(* C19: when an exception leaves emit, the step releases the Signal's mutex, *)
(* leaves the thread holding no mutex at all, changes no table, set or       *)
(* back-reference, and the callables after the throwing one are not invoked; *)
(* a mutex is only ever owned by a thread inside a call, so a later call on  *)
(* the Signal finds it free.                                                 *)
Owned(t) ==
    [signals |-> {s \in Signals : sig_m_mutex[s] = t},
     slots |-> {sl \in Slots : slot_m_mutex[sl].owner = t},
     connections |-> {c \in Conns : conn_m_mutex[c].owner = t}]

OwnsNothing == [signals |-> {}, slots |-> {}, connections |-> {}]

EmitRaises(t) == Broadcasting(t) /\ ~th[t].raised /\ th'[t].raised

C19_Step ==
    \A t \in Threads :
        EmitRaises(t) =>
            /\ th'[t].pc = "done"
            /\ sig_m_mutex[th[t].sig] = t
            /\ sig_m_mutex'[th[t].sig] = NoThread
            /\ Owned(t)' = OwnsNothing
            /\ UNCHANGED <<sig_m_connections, slot_m_connections, m_pSignal, m_pSlot,
                           allocated, erased>>
            /\ Len(th'[t].calls) <= Len(th[t].calls) + 1
            /\ th'[t].iter = DOMAIN th[t].snap \ {th'[t].calls[i].conn : i \in 1..Len(th'[t].calls)}

C19_NoLockLeft ==
    \A t \in Threads : ~InCall(t) => Owned(t) = OwnsNothing

C19_ExceptionReleasesLock == [][C19_Step]_vars /\ []C19_NoLockLeft

(* An emit over Connections 1 and 2 ended when the first listener threw; the *)
(* second was not invoked, and a later disconnect of it has run to its end   *)
C19_Witness ==
    /\ th["t1"].pc = "done"
    /\ th["t1"].op = "emit"
    /\ th["t1"].raised
    /\ th["t1"].nested = "none"
    /\ DOMAIN th["t1"].snap = {1, 2}
    /\ Len(th["t1"].calls) = 1
    /\ th["t1"].iter = {2}
    /\ Returned("t2", "disconnect")
    /\ th["t2"].sig = th["t1"].sig
    /\ th["t2"].removed = {2}
    /\ DOMAIN sig_m_connections["S1"] = {1}
    /\ sig_m_mutex["S1"] = NoThread

(* C20: every bound method in the table of a Signal on which a broadcast is  *)
(* in progress belongs to a Slot whose ~Slot has not returned, so ~Slot does *)
(* not return while such a broadcast runs, and every bound method a          *)
(* broadcast invokes is invoked on a live Slot.                              *)
SlotReturns(t) ==
    /\ th[t].op = "~Slot"
    /\ th[t].pc # "done"
    /\ th'[t].pc = "done"

C20_Step ==
    \A t \in Threads :
        SlotReturns(t) =>
            \A u \in Threads, s \in Signals :
                Emitting(u, s) =>
                    \A c \in DOMAIN sig_m_connections[s] :
                        sig_m_connections[s][c] # th[t].slot

C20_LiveTargets ==
    \A t \in Threads :
        Broadcasting(t) =>
            /\ \A i \in 1..Len(th[t].calls) : th[t].calls[i].live
            /\ th[t].pc # "done" =>
                   \A c \in DOMAIN th[t].snap :
                       th[t].snap[c] \in Slots => slotAlive[th[t].snap[c]]

C20_NoCallOnDestroyedSlot == [][C20_Step]_vars /\ []C20_LiveTargets

(* An emit has invoked a method of A and has a second callable to go, while *)
(* ~Slot of A holds A's and the Connection's mutexes and waits for the      *)
(* Signal's: A is still alive                                               *)
C20_Witness ==
    /\ th["t1"].pc = "emit_loop"
    /\ Len(th["t1"].calls) = 1
    /\ th["t1"].calls[1].fn = "A"
    /\ th["t1"].calls[1].live
    /\ th["t1"].iter # {}
    /\ th["t2"].op = "~Slot"
    /\ th["t2"].pc = "disconnect"
    /\ th["t2"].sig = th["t1"].sig
    /\ th["t2"].conn = th["t1"].calls[1].conn
    /\ slot_m_mutex["A"].owner = "t2"
    /\ slotAlive["A"]

====
